---- MODULE Spec2Model ----
(***************************************************************************)
(* Model of the Dhruv Dental Depot backend (src/src/server.js).  The file  *)
(* holds two servers with the same HTTP surface:                           *)
(*   - lines 1-289: the JSON-file variant (readDb / writeDb on one file),  *)
(*   - lines 291-743: the SQLite variant (one shared connection `db`).     *)
(* A run of the model is one server process serving MaxReq requests whose  *)
(* handlers interleave at their await points.                              *)
(***************************************************************************)
EXTENDS Integers, Sequences, FiniteSets, TLC

VARIABLES
  variant,     \* which server is running: "json" or "sqlite"
  dbFile,      \* JSON variant: parsed content of DB_FILE
  writeQueue,  \* JSON variant: requests whose writeDb is chained and not yet written
  db,          \* SQLite variant: content of the database the connection sees
  txn,         \* SQLite variant: the open transaction of the connection, or NoTxn
  req,         \* the requests: inputs, handler position, locals, response
  jar,         \* session ids that clients hold (cookies that were handed out)
  now          \* the wall clock, in milliseconds

vars == <<variant, dbFile, writeQueue, db, txn, req, jar, now>>

\* ------------------------------------------------------------------ bounds
MaxReq == 3
MaxClock == 2
MaxInFlight == 2
SeqReq == 2

Reqs == 1..MaxReq

\* crypto.randomUUID(): the k-th identifier request r draws. No two draws
\* give the same identifier, and none gives one the store held at start-up.
randomUUID(r, k) == 2 * r + k

\* What Date.now() can return to a POST /orders: the clock never runs
\* backwards. The other reads of the clock (the createdAt of a user or of a
\* session) see `now` and leave it: in the model the clock advances when an
\* order reads it.
Times == now..MaxClock

\* ------------------------------------------------------------ JS values
undefined == [t |-> "undefined"]
null == [t |-> "null"]
NaN == [t |-> "NaN"]
Str(s) == [t |-> "string", s |-> s]
Num(n) == [t |-> "number", n |-> n]
Arr(a) == [t |-> "array", a |-> a]
Obj(o) == [t |-> "object", o |-> o]

\* JS truthiness, as used by `x || y` and `!x`.
Truthy(v) ==
  CASE v.t = "string" -> Len(v.s) > 0
    [] v.t = "number" -> v.n # 0
    [] v.t = "array" -> TRUE
    [] v.t = "object" -> TRUE
    [] OTHER -> FALSE

\* `v || d`
Or(v, d) == IF Truthy(v) THEN v ELSE d

Digit(n) ==
  CASE n = 0 -> "0" [] n = 1 -> "1" [] n = 2 -> "2" [] n = 3 -> "3" [] n = 4 -> "4"
    [] n = 5 -> "5" [] n = 6 -> "6" [] n = 7 -> "7" [] n = 8 -> "8" [] OTHER -> "9"

IsDigit(c) == c \in {"0", "1", "2", "3", "4", "5", "6", "7", "8", "9"}

DigitValue(c) == CHOOSE n \in 0..9 : Digit(n) = c

\* String(v) for the values `v || ""` can yield: a string, or a truthy number.
String(v) ==
  CASE v.t = "string" -> v.s
    [] v.t = "number" -> IF v.n < 0 THEN <<"-", Digit(-v.n)>> ELSE <<Digit(v.n)>>
    [] OTHER -> <<"?">>

IsSpace(c) == c = " "

RECURSIVE trimStart(_)
trimStart(s) == IF s # <<>> /\ IsSpace(Head(s)) THEN trimStart(Tail(s)) ELSE s

RECURSIVE trimEnd(_)
trimEnd(s) ==
  IF s # <<>> /\ IsSpace(s[Len(s)]) THEN trimEnd(SubSeq(s, 1, Len(s) - 1)) ELSE s

\* String.prototype.trim
trim(s) == trimEnd(trimStart(s))

lowerChar(c) == CASE c = "A" -> "a" [] c = "B" -> "b" [] OTHER -> c

\* String.prototype.toLowerCase
toLowerCase(s) == [i \in 1..Len(s) |-> lowerChar(s[i])]

\* Number(v) for the values `item.qty || 0` can yield.
Number(v) ==
  CASE v.t = "number" -> v
    [] v.t = "string" ->
         LET s == trim(v.s) IN
         IF s = <<>> THEN Num(0)
         ELSE IF Len(s) = 1 /\ IsDigit(s[1]) THEN Num(DigitValue(s[1]))
         ELSE NaN
    [] OTHER -> NaN

\* JSON.stringify followed by JSON.parse on a number: NaN is written as null.
jsonNumber(v) == IF v.t = "NaN" THEN null ELSE v

\* bcrypt.hash / bcrypt.compare: the hash token of a password matches that
\* password only.
bcryptHash(password) == <<"$2a$12$">> \o password
bcryptCompare(password, hash) == hash = bcryptHash(password)

\* ------------------------------------------------------------ records
NoUser == [id |-> 0, name |-> <<>>, email |-> <<>>, createdAt |-> 0]
NoSession == [userId |-> 0, createdAt |-> 0]
NoCustomer ==
  [name |-> <<>>, phone |-> <<>>, email |-> <<>>, address |-> <<>>,
   city |-> <<>>, state |-> <<>>, pinCode |-> <<>>, note |-> <<>>]
NoOrder ==
  [id |-> 0, createdAt |-> 0, userId |-> 0, customer |-> NoCustomer, items |-> <<>>]
NoRes == [error |-> "", ok |-> FALSE, user |-> NoUser, order |-> NoOrder, orders |-> <<>>]
EmptyBody ==
  [name |-> undefined, email |-> undefined, password |-> undefined,
   customer |-> undefined, items |-> undefined]

\* ensureDb's initial file content.
initial == [users |-> <<>>, sessions |-> <<>>, orders |-> <<>>]

NoTxn == [open |-> FALSE]

\* The schema of initDb, empty.
emptyTables ==
  [users |-> {}, sessions |-> {}, orders |-> <<>>, order_items |-> <<>>, seq |-> 0]

NoReq ==
  [op |-> "none", pc |-> "idle", after |-> {}, cookie |-> 0, body |-> EmptyBody,
   db |-> initial, user |-> NoUser, sessionId |-> 0,
   order |-> NoOrder, i |-> 0,
   status |-> 0, res |-> NoRes, setCookie |-> 0]

sanitizeUser(user) ==
  [id |-> user.id, name |-> user.name, email |-> user.email, createdAt |-> user.createdAt]

sanitizeOrder(order) ==
  [id |-> order.id, createdAt |-> order.createdAt, customer |-> order.customer,
   items |-> order.items]

\* ------------------------------------------------------------ requests
\* The slot the next arriving request takes: slots are taken in arrival order.
Free == {r \in Reqs : req[r].op = "none"}
NextSlot == CHOOSE r \in Free : \A q \in Free : r <= q
InFlight == Cardinality({r \in Reqs : req[r].op # "none" /\ req[r].pc # "done"})
Done == {r \in Reqs : req[r].pc = "done"}

\* A request as express hands it to its handler: req.cookies[COOKIE_NAME]
\* (0: no cookie) and req.body.
Arrived(op, cookie, body) ==
  [NoReq EXCEPT !.op = op, !.pc = "run", !.after = Done, !.cookie = cookie,
                !.body = body]

\* res.status(status).json(res), after setSessionCookie (cookie > 0) or
\* clearSessionCookie (cookie = -1).
answer(q, status, res, cookie) ==
  [q EXCEPT !.pc = "done", !.status = status, !.res = res, !.setCookie = cookie]

error(msg) == [NoRes EXCEPT !.error = msg]

internalError(q) == answer(q, 500, error("internal server error"), 0)

\* The fields a handler reads from req.body.
regName(body) == trim(String(Or(body.name, Str(<<>>))))
regEmail(body) == toLowerCase(trim(String(Or(body.email, Str(<<>>)))))
regPassword(body) == String(Or(body.password, Str(<<>>)))

\* `req.body?.customer || {}` and a property read on it.
customerOf(body) == Or(body.customer, Obj(<<>>))
prop(customer, f) ==
  IF customer.t = "object" /\ f \in DOMAIN customer.o THEN customer.o[f] ELSE undefined

\* `Array.isArray(req.body?.items) ? req.body.items : []`
itemsOf(body) == IF body.items.t = "array" THEN body.items.a ELSE <<>>

customerRequired(customer) ==
  /\ Truthy(prop(customer, "name"))
  /\ Truthy(prop(customer, "phone"))
  /\ Truthy(prop(customer, "address"))

field(customer, f) == trim(String(Or(prop(customer, f), Str(<<>>))))

\* The customer snapshot both servers build from the request.
customerSnapshot(customer) ==
  [name |-> field(customer, "name"), phone |-> field(customer, "phone"),
   email |-> field(customer, "email"), address |-> field(customer, "address"),
   city |-> field(customer, "city"), state |-> field(customer, "state"),
   pinCode |-> field(customer, "pinCode"), note |-> field(customer, "note")]

\* Reading item.id of null throws a TypeError.
canConvert(item) == item.t = "object"

convertItem(item) ==
  [id |-> String(Or(prop(item, "id"), Str(<<>>))),
   title |-> String(Or(prop(item, "title"), Str(<<>>))),
   category |-> String(Or(prop(item, "category"), Str(<<>>))),
   qty |-> Number(Or(prop(item, "qty"), Num(0)))]

convertItems(items) == [k \in 1..Len(items) |-> convertItem(items[k])]

\* res.json serialises the body: a NaN quantity leaves as null.
jsonOrder(order) ==
  [order EXCEPT !.items = [k \in 1..Len(@) |-> [@[k] EXCEPT !.qty = jsonNumber(@)]]]

\* =================================================== JSON-file variant
readDb == dbFile

\* What JSON.stringify / JSON.parse make of the object handed to writeDb.
stringifyDb(nextDb) ==
  [nextDb EXCEPT !.orders = [k \in 1..Len(@) |-> jsonOrder(@[k])]]

findUserByEmail(d, email) ==
  IF \E k \in 1..Len(d.users) : d.users[k].email = email
  THEN d.users[CHOOSE k \in 1..Len(d.users) :
                 /\ d.users[k].email = email
                 /\ \A j \in 1..(k - 1) : d.users[j].email # email]
  ELSE NoUser

findUserById(d, id) ==
  IF \E k \in 1..Len(d.users) : d.users[k].id = id
  THEN d.users[CHOOSE k \in 1..Len(d.users) :
                 /\ d.users[k].id = id
                 /\ \A j \in 1..(k - 1) : d.users[j].id # id]
  ELSE NoUser

sessionOf(d, sessionId) ==
  IF sessionId \in DOMAIN d.sessions THEN d.sessions[sessionId] ELSE NoSession

\* getUserFromSession of the JSON-file server.
getUserFromSession(cookie) ==
  IF cookie = 0 THEN NoUser
  ELSE LET session == sessionOf(readDb, cookie) IN
       IF session = NoSession THEN NoUser ELSE findUserById(readDb, session.userId)

\* writeDb: chain the write after the writes chained before it.
writeDb(r) == writeQueue' = Append(writeQueue, r)

\* The chained fs.writeFile of request r runs: r is the oldest in the chain.
fsWriteFile(r) ==
  /\ writeQueue # <<>>
  /\ Head(writeQueue) = r
  /\ writeQueue' = Tail(writeQueue)
  /\ dbFile' = stringifyDb(req[r].db)

\* POST /auth/register up to `await bcrypt.hash`.
JRegister(body) ==
  LET r == NextSlot
      q == Arrived("register", 0, body)
      d == readDb
  IN
  /\ variant = "json"
  /\ Free # {}
  /\ req' = [req EXCEPT ![r] =
       IF regName(body) = <<>> \/ regEmail(body) = <<>> \/ regPassword(body) = <<>>
       THEN answer(q, 400, error("name, email, and password are required"), 0)
       ELSE IF findUserByEmail(d, regEmail(body)) # NoUser
       THEN answer(q, 409, error("email already registered"), 0)
       ELSE [q EXCEPT !.pc = "hash", !.db = d]]
  /\ UNCHANGED <<variant, dbFile, writeQueue, db, txn, jar, now>>

\* POST /auth/register from the hash to the call of writeDb.
JRegisterHashed(r, t) ==
  LET q == req[r]
      user == [id |-> randomUUID(r, 1), name |-> regName(q.body), email |-> regEmail(q.body),
               passwordHash |-> bcryptHash(regPassword(q.body)), createdAt |-> t]
      sessionId == randomUUID(r, 2)
  IN
  /\ variant = "json"
  /\ q.op = "register" /\ q.pc = "hash"
  /\ req' = [req EXCEPT ![r] =
       [q EXCEPT !.pc = "write", !.user = user, !.sessionId = sessionId,
                 !.db = [q.db EXCEPT
                           !.users = Append(@, user),
                           !.sessions = @ @@ (sessionId :>
                              [userId |-> user.id, createdAt |-> t])]]]
  /\ writeDb(r)
  /\ UNCHANGED <<variant, dbFile, db, txn, jar>>
  /\ now' = t

\* POST /auth/register after `await writeDb(db)`.
JRegisterWritten(r) ==
  LET q == req[r] IN
  /\ variant = "json"
  /\ q.op = "register" /\ q.pc = "write"
  /\ fsWriteFile(r)
  /\ req' = [req EXCEPT ![r] =
       answer(q, 201, [NoRes EXCEPT !.user = sanitizeUser(q.user)], q.sessionId)]
  /\ jar' = jar \cup {q.sessionId}
  /\ UNCHANGED <<variant, db, txn, now>>

\* A login that tells an unknown email from a wrong password.
loginNoUserLeaks(q) == answer(q, 404, error("user not found"), 0)

\* POST /auth/login: `if (!user)` and `if (!matches)`.
loginNoUser(q) == answer(q, 401, error("invalid credentials"), 0)
loginNoMatch(q) == answer(q, 401, error("invalid credentials"), 0)

\* POST /auth/login up to `await bcrypt.compare`.
JLogin(body) ==
  LET r == NextSlot
      q == Arrived("login", 0, body)
      d == readDb
      user == findUserByEmail(d, regEmail(body))
  IN
  /\ variant = "json"
  /\ Free # {}
  /\ req' = [req EXCEPT ![r] =
       IF regEmail(body) = <<>> \/ regPassword(body) = <<>>
       THEN answer(q, 400, error("email and password are required"), 0)
       ELSE IF user = NoUser
       THEN loginNoUser(q)
       ELSE [q EXCEPT !.pc = "compare", !.db = d, !.user = user]]
  /\ UNCHANGED <<variant, dbFile, writeQueue, db, txn, jar, now>>

\* POST /auth/login from the comparison to the call of writeDb.
JLoginCompared(r, t) ==
  LET q == req[r]
      sessionId == randomUUID(r, 2)
  IN
  /\ variant = "json"
  /\ q.op = "login" /\ q.pc = "compare"
  /\ IF ~bcryptCompare(regPassword(q.body), q.user.passwordHash)
     THEN /\ req' = [req EXCEPT ![r] = loginNoMatch(q)]
          /\ UNCHANGED <<writeQueue>>
     ELSE /\ req' = [req EXCEPT ![r] =
                [q EXCEPT !.pc = "write", !.sessionId = sessionId,
                          !.db = [q.db EXCEPT !.sessions = @ @@ (sessionId :>
                                    [userId |-> q.user.id, createdAt |-> t])]]]
          /\ writeDb(r)
  /\ UNCHANGED <<variant, dbFile, db, txn, jar>>
  /\ now' = t

\* POST /auth/login after `await writeDb(db)`.
JLoginWritten(r) ==
  LET q == req[r] IN
  /\ variant = "json"
  /\ q.op = "login" /\ q.pc = "write"
  /\ fsWriteFile(r)
  /\ req' = [req EXCEPT ![r] =
       answer(q, 200, [NoRes EXCEPT !.user = sanitizeUser(q.user)], q.sessionId)]
  /\ jar' = jar \cup {q.sessionId}
  /\ UNCHANGED <<variant, db, txn, now>>

\* POST /auth/logout up to `await writeDb(db)`.
JLogout(cookie) ==
  LET r == NextSlot
      q == Arrived("logout", cookie, EmptyBody)
      d == readDb
  IN
  /\ variant = "json"
  /\ Free # {}
  /\ IF cookie = 0
     THEN /\ req' = [req EXCEPT ![r] = answer(q, 200, [NoRes EXCEPT !.ok = TRUE], -1)]
          /\ UNCHANGED writeQueue
     ELSE /\ req' = [req EXCEPT ![r] =
                [q EXCEPT !.pc = "write",
                          !.db = [d EXCEPT !.sessions =
                                    [k \in DOMAIN @ \ {cookie} |-> @[k]]]]]
          /\ writeDb(r)
  /\ UNCHANGED <<variant, dbFile, db, txn, jar, now>>

\* POST /auth/logout after `await writeDb(db)`.
JLogoutWritten(r) ==
  LET q == req[r] IN
  /\ variant = "json"
  /\ q.op = "logout" /\ q.pc = "write"
  /\ fsWriteFile(r)
  /\ req' = [req EXCEPT ![r] = answer(q, 200, [NoRes EXCEPT !.ok = TRUE], -1)]
  /\ UNCHANGED <<variant, db, txn, jar, now>>

\* GET /auth/me.
JMe(cookie) ==
  LET r == NextSlot
      q == Arrived("me", cookie, EmptyBody)
      user == getUserFromSession(cookie)
  IN
  /\ variant = "json"
  /\ Free # {}
  /\ req' = [req EXCEPT ![r] =
       IF user = NoUser
       THEN answer(q, 401, error("not authenticated"), 0)
       ELSE answer(q, 200, [NoRes EXCEPT !.user = sanitizeUser(user)], 0)]
  /\ UNCHANGED <<variant, dbFile, writeQueue, db, txn, jar, now>>

\* POST /orders up to `await writeDb(db)`.
JOrder(cookie, body, t) ==
  LET r == NextSlot
      q == Arrived("order", cookie, body)
      d == readDb
      session == sessionOf(d, cookie)
      user == findUserById(d, session.userId)
      customer == customerOf(body)
      items == itemsOf(body)
      order == [id |-> t, createdAt |-> t, userId |-> user.id,
                customer |-> customerSnapshot(customer),
                items |-> convertItems(items)]
  IN
  /\ variant = "json"
  /\ Free # {}
  /\ IF cookie = 0 \/ session = NoSession \/ user = NoUser
     THEN /\ req' = [req EXCEPT ![r] = answer(q, 401, error("not authenticated"), 0)]
          /\ UNCHANGED writeQueue
     ELSE IF ~customerRequired(customer)
     THEN /\ req' = [req EXCEPT ![r] =
                answer(q, 400, error("customer name, phone, and address are required"), 0)]
          /\ UNCHANGED writeQueue
     ELSE IF Len(items) = 0
     THEN /\ req' = [req EXCEPT ![r] =
                answer(q, 400, error("at least one order item is required"), 0)]
          /\ UNCHANGED writeQueue
     ELSE IF \E k \in 1..Len(items) : ~canConvert(items[k])
     THEN /\ req' = [req EXCEPT ![r] = internalError(q)]
          /\ UNCHANGED writeQueue
     ELSE /\ req' = [req EXCEPT ![r] =
                [q EXCEPT !.pc = "write", !.user = user, !.order = order,
                          !.db = [d EXCEPT !.orders = Append(@, order)]]]
          /\ writeDb(r)
  /\ UNCHANGED <<variant, dbFile, db, txn, jar>>
  /\ now' = t

\* POST /orders after `await writeDb(db)`.
JOrderWritten(r) ==
  LET q == req[r] IN
  /\ variant = "json"
  /\ q.op = "order" /\ q.pc = "write"
  /\ fsWriteFile(r)
  /\ req' = [req EXCEPT ![r] =
       answer(q, 201, [NoRes EXCEPT !.order = jsonOrder(sanitizeOrder(q.order))], 0)]
  /\ UNCHANGED <<variant, db, txn, jar, now>>

\* GET /orders/me.
JOrdersMe(cookie) ==
  LET r == NextSlot
      q == Arrived("list", cookie, EmptyBody)
      d == readDb
      session == sessionOf(d, cookie)
      mine(order) == order.userId = session.userId
      userOrders == LET f == SelectSeq(d.orders, mine)
                    IN [k \in 1..Len(f) |-> sanitizeOrder(f[k])]
  IN
  /\ variant = "json"
  /\ Free # {}
  /\ req' = [req EXCEPT ![r] =
       IF cookie = 0 \/ session = NoSession
       THEN answer(q, 401, error("not authenticated"), 0)
       ELSE answer(q, 200, [NoRes EXCEPT !.orders = userOrders], 0)]
  /\ UNCHANGED <<variant, dbFile, writeQueue, db, txn, jar, now>>

\* ====================================================== SQLite variant
\* sanitizeUser of the SQLite server: a users row to the response object.
sanitizeUserRow(user) ==
  [id |-> user.id, name |-> user.name, email |-> user.email,
   createdAt |-> user.created_at]

\* SELECT ... FROM users WHERE email = ? LIMIT 1
selectUserByEmail(email) ==
  IF \E u \in db.users : u.email = email
  THEN CHOOSE u \in db.users : u.email = email
  ELSE NoUser

\* getUserFromSession of the SQLite server: sessions INNER JOIN users.
selectSessionUser(cookie) ==
  IF cookie # 0 /\ \E s \in db.sessions : \E u \in db.users :
                      s.id = cookie /\ u.id = s.user_id
  THEN LET u == CHOOSE u \in db.users :
                  \E s \in db.sessions : s.id = cookie /\ u.id = s.user_id
       IN [id |-> u.id, name |-> u.name, email |-> u.email, created_at |-> u.created_at]
  ELSE NoUser

\* A users table whose email column lost its UNIQUE constraint.
canInsertUserById(user) ==
  \A u \in db.users : u.id # user.id

\* INSERT INTO users: email is UNIQUE, id the primary key.
canInsertUser(user) ==
  \A u \in db.users : u.email # user.email /\ u.id # user.id

\* INSERT INTO sessions: user_id references users(id), foreign_keys is ON.
canInsertSession(sessionId, userId) ==
  /\ \A s \in db.sessions : s.id # sessionId
  /\ \E u \in db.users : u.id = userId

\* INSERT INTO orders: id is the primary key, user_id references users(id).
canInsertOrder(orderId, userId) ==
  /\ \A k \in 1..Len(db.orders) : db.orders[k].id # orderId
  /\ \E u \in db.users : u.id = userId

\* INSERT INTO order_items: qty is NOT NULL and a NaN is bound as NULL;
\* order_id references orders(id).
canInsertItem(orderId, item) ==
  /\ convertItem(item).qty.t # "NaN"
  /\ \E k \in 1..Len(db.orders) : db.orders[k].id = orderId

\* Where POST /orders goes once the statement before item i has run: the next
\* item's parameters are built (a null item throws), or the loop is over.
afterInsert(items, i) ==
  IF i > Len(items) THEN "commit"
  ELSE IF ~canConvert(items[i]) THEN "rollback"
  ELSE "items"

\* POST /auth/register up to `await bcrypt.hash`.
SRegister(body) ==
  LET r == NextSlot
      q == Arrived("register", 0, body)
  IN
  /\ variant = "sqlite"
  /\ Free # {}
  /\ req' = [req EXCEPT ![r] =
       IF regName(body) = <<>> \/ regEmail(body) = <<>> \/ regPassword(body) = <<>>
       THEN answer(q, 400, error("name, email, and password are required"), 0)
       ELSE IF selectUserByEmail(regEmail(body)) # NoUser
       THEN answer(q, 409, error("email already registered"), 0)
       ELSE [q EXCEPT !.pc = "hash"]]
  /\ UNCHANGED <<variant, dbFile, writeQueue, db, txn, jar, now>>

\* POST /auth/register: the hash is done, INSERT INTO users runs.
SRegisterInsertUser(r, t) ==
  LET q == req[r]
      user == [id |-> randomUUID(r, 1), name |-> regName(q.body), email |-> regEmail(q.body),
               passwordHash |-> bcryptHash(regPassword(q.body)), createdAt |-> t]
      row == [id |-> user.id, name |-> user.name, email |-> user.email,
              password_hash |-> user.passwordHash, created_at |-> user.createdAt]
  IN
  /\ variant = "sqlite"
  /\ q.op = "register" /\ q.pc = "hash"
  /\ IF canInsertUser(row)
     THEN /\ db' = [db EXCEPT !.users = @ \cup {row}]
          /\ req' = [req EXCEPT ![r] = [q EXCEPT !.pc = "session", !.user = user]]
     ELSE /\ req' = [req EXCEPT ![r] = internalError(q)]
          /\ UNCHANGED db
  /\ UNCHANGED <<variant, dbFile, writeQueue, txn, jar>>
  /\ now' = t

\* POST /auth/register: INSERT INTO sessions runs, then the response.
SRegisterInsertSession(r, t) ==
  LET q == req[r]
      sessionId == randomUUID(r, 2)
  IN
  /\ variant = "sqlite"
  /\ q.op = "register" /\ q.pc = "session"
  /\ IF canInsertSession(sessionId, q.user.id)
     THEN /\ db' = [db EXCEPT !.sessions = @ \cup
                      {[id |-> sessionId, user_id |-> q.user.id, created_at |-> t]}]
          /\ req' = [req EXCEPT ![r] =
                answer([q EXCEPT !.sessionId = sessionId], 201,
                       [NoRes EXCEPT !.user = sanitizeUser(q.user)], sessionId)]
          /\ jar' = jar \cup {sessionId}
     ELSE /\ req' = [req EXCEPT ![r] = internalError(q)]
          /\ UNCHANGED <<db, jar>>
  /\ UNCHANGED <<variant, dbFile, writeQueue, txn>>
  /\ now' = t

\* POST /auth/login: `if (!user)` and `if (!matches)`.
sqlLoginNoUser(q) == answer(q, 401, error("invalid credentials"), 0)
sqlLoginNoMatch(q) == answer(q, 401, error("invalid credentials"), 0)

\* POST /auth/login up to `await bcrypt.compare`.
SLogin(body) ==
  LET r == NextSlot
      q == Arrived("login", 0, body)
      user == selectUserByEmail(regEmail(body))
  IN
  /\ variant = "sqlite"
  /\ Free # {}
  /\ req' = [req EXCEPT ![r] =
       IF regEmail(body) = <<>> \/ regPassword(body) = <<>>
       THEN answer(q, 400, error("email and password are required"), 0)
       ELSE IF user = NoUser
       THEN sqlLoginNoUser(q)
       ELSE [q EXCEPT !.pc = "compare", !.user = user]]
  /\ UNCHANGED <<variant, dbFile, writeQueue, db, txn, jar, now>>

\* POST /auth/login: the comparison is done, INSERT INTO sessions runs, then
\* the response.
SLoginInsertSession(r, t) ==
  LET q == req[r]
      sessionId == randomUUID(r, 2)
  IN
  /\ variant = "sqlite"
  /\ q.op = "login" /\ q.pc = "compare"
  /\ IF ~bcryptCompare(regPassword(q.body), q.user.password_hash)
     THEN /\ req' = [req EXCEPT ![r] = sqlLoginNoMatch(q)]
          /\ UNCHANGED <<db, jar>>
     ELSE IF canInsertSession(sessionId, q.user.id)
     THEN /\ db' = [db EXCEPT !.sessions = @ \cup
                      {[id |-> sessionId, user_id |-> q.user.id, created_at |-> t]}]
          /\ req' = [req EXCEPT ![r] =
                answer([q EXCEPT !.sessionId = sessionId], 200,
                       [NoRes EXCEPT !.user = sanitizeUserRow(q.user)], sessionId)]
          /\ jar' = jar \cup {sessionId}
     ELSE /\ req' = [req EXCEPT ![r] = internalError(q)]
          /\ UNCHANGED <<db, jar>>
  /\ UNCHANGED <<variant, dbFile, writeQueue, txn>>
  /\ now' = t

\* POST /auth/logout.
SLogout(cookie) ==
  LET r == NextSlot
      q == Arrived("logout", cookie, EmptyBody)
  IN
  /\ variant = "sqlite"
  /\ Free # {}
  /\ db' = IF cookie = 0 THEN db
           ELSE [db EXCEPT !.sessions = {s \in @ : s.id # cookie}]
  /\ req' = [req EXCEPT ![r] = answer(q, 200, [NoRes EXCEPT !.ok = TRUE], -1)]
  /\ UNCHANGED <<variant, dbFile, writeQueue, txn, jar, now>>

\* GET /auth/me.
SMe(cookie) ==
  LET r == NextSlot
      q == Arrived("me", cookie, EmptyBody)
      user == selectSessionUser(cookie)
  IN
  /\ variant = "sqlite"
  /\ Free # {}
  /\ req' = [req EXCEPT ![r] =
       IF user = NoUser
       THEN answer(q, 401, error("not authenticated"), 0)
       ELSE answer(q, 200, [NoRes EXCEPT !.user = sanitizeUserRow(user)], 0)]
  /\ UNCHANGED <<variant, dbFile, writeQueue, db, txn, jar, now>>

\* POST /orders up to `await runAsync("BEGIN TRANSACTION")`.
SOrder(cookie, body, t) ==
  LET r == NextSlot
      q == Arrived("order", cookie, body)
      user == selectSessionUser(cookie)
      customer == customerOf(body)
      items == itemsOf(body)
  IN
  /\ variant = "sqlite"
  /\ Free # {}
  /\ req' = [req EXCEPT ![r] =
       IF user = NoUser
       THEN answer(q, 401, error("not authenticated"), 0)
       ELSE IF ~customerRequired(customer)
       THEN answer(q, 400, error("customer name, phone, and address are required"), 0)
       ELSE IF Len(items) = 0
       THEN answer(q, 400, error("at least one order item is required"), 0)
       ELSE [q EXCEPT !.pc = "begin", !.user = user,
                      !.order = [NoOrder EXCEPT !.id = t, !.createdAt = t,
                                                !.userId = user.id]]]
  /\ UNCHANGED <<variant, dbFile, writeQueue, db, txn, jar>>
  /\ now' = t

\* POST /orders: BEGIN TRANSACTION runs on the shared connection.
SOrderBegin(r) ==
  LET q == req[r] IN
  /\ variant = "sqlite"
  /\ q.op = "order" /\ q.pc = "begin"
  /\ IF txn.open
     THEN /\ req' = [req EXCEPT ![r] = internalError(q)]
          /\ UNCHANGED txn
     ELSE /\ req' = [req EXCEPT ![r] = [q EXCEPT !.pc = "header"]]
          /\ txn' = [open |-> TRUE, saved |-> db]
  /\ UNCHANGED <<variant, dbFile, writeQueue, db, jar, now>>

\* POST /orders: INSERT INTO orders runs.
SOrderInsertHeader(r) ==
  LET q == req[r]
      c == customerSnapshot(customerOf(q.body))
      row == [id |-> q.order.id, user_id |-> q.user.id, created_at |-> q.order.createdAt,
              customer_name |-> c.name, customer_phone |-> c.phone,
              customer_email |-> c.email, customer_address |-> c.address,
              customer_city |-> c.city, customer_state |-> c.state,
              customer_pin_code |-> c.pinCode, customer_note |-> c.note]
  IN
  /\ variant = "sqlite"
  /\ q.op = "order" /\ q.pc = "header"
  /\ IF canInsertOrder(row.id, row.user_id)
     THEN /\ db' = [db EXCEPT !.orders = Append(@, row)]
          /\ req' = [req EXCEPT ![r] =
                [q EXCEPT !.i = 1, !.pc = afterInsert(itemsOf(q.body), 1)]]
     ELSE /\ req' = [req EXCEPT ![r] = [q EXCEPT !.pc = "rollback"]]
          /\ UNCHANGED db
  /\ UNCHANGED <<variant, dbFile, writeQueue, txn, jar, now>>

\* POST /orders: INSERT INTO order_items runs for item i.
SOrderInsertItem(r) ==
  LET q == req[r]
      items == itemsOf(q.body)
      item == convertItem(items[q.i])
      row == [id |-> db.seq + 1, order_id |-> q.order.id, product_id |-> item.id,
              title |-> item.title, category |-> item.category, qty |-> item.qty]
  IN
  /\ variant = "sqlite"
  /\ q.op = "order" /\ q.pc = "items"
  /\ IF canInsertItem(q.order.id, items[q.i])
     THEN /\ db' = [db EXCEPT !.order_items = Append(@, row), !.seq = @ + 1]
          /\ req' = [req EXCEPT ![r] =
                [q EXCEPT !.i = @ + 1, !.pc = afterInsert(items, q.i + 1)]]
     ELSE /\ req' = [req EXCEPT ![r] = [q EXCEPT !.pc = "rollback"]]
          /\ UNCHANGED db
  /\ UNCHANGED <<variant, dbFile, writeQueue, txn, jar, now>>

\* POST /orders: COMMIT runs, then the 201 response.
SOrderCommit(r) ==
  LET q == req[r]
      order == [id |-> q.order.id, createdAt |-> q.order.createdAt,
                customer |-> customerSnapshot(customerOf(q.body)),
                items |-> convertItems(itemsOf(q.body))]
  IN
  /\ variant = "sqlite"
  /\ q.op = "order" /\ q.pc = "commit"
  /\ txn' = NoTxn
  /\ req' = [req EXCEPT ![r] =
       IF txn.open
       THEN answer(q, 201, [NoRes EXCEPT !.order = jsonOrder(order)], 0)
       ELSE internalError(q)]
  /\ UNCHANGED <<variant, dbFile, writeQueue, db, jar, now>>

\* A catch block whose ROLLBACK leaves the rows written since BEGIN in place.
SOrderRollbackKeeps(r) ==
  LET q == req[r] IN
  /\ variant = "sqlite"
  /\ q.op = "order" /\ q.pc = "rollback"
  /\ db' = db
  /\ txn' = NoTxn
  /\ req' = [req EXCEPT ![r] = internalError(q)]
  /\ UNCHANGED <<variant, dbFile, writeQueue, jar, now>>

\* POST /orders: ROLLBACK runs, then the error is thrown on to the 500.
SOrderRollback(r) ==
  LET q == req[r] IN
  /\ variant = "sqlite"
  /\ q.op = "order" /\ q.pc = "rollback"
  /\ db' = IF txn.open THEN txn.saved ELSE db
  /\ txn' = NoTxn
  /\ req' = [req EXCEPT ![r] = internalError(q)]
  /\ UNCHANGED <<variant, dbFile, writeQueue, jar, now>>

\* The row a LEFT JOIN gives an order without items: every oi column is NULL.
NoItemRow ==
  [id |-> 0, order_id |-> 0, product_id |-> <<>>, title |-> <<>>,
   category |-> <<>>, qty |-> null]

\* orders o LEFT JOIN order_items oi ON oi.order_id = o.id WHERE o.user_id = ?
joinRows(userId) ==
  LET mine == {k \in 1..Len(db.orders) : db.orders[k].user_id = userId}
      its(k) == {j \in 1..Len(db.order_items) :
                   db.order_items[j].order_id = db.orders[k].id}
  IN UNION {IF its(k) = {}
            THEN {[o |-> db.orders[k], oi |-> NoItemRow]}
            ELSE {[o |-> db.orders[k], oi |-> db.order_items[j]] : j \in its(k)}
            : k \in mine}

\* ORDER BY o.created_at DESC, oi.id ASC
rowBefore(x, y) ==
  \/ x.o.created_at > y.o.created_at
  \/ x.o.created_at = y.o.created_at /\ x.oi.id < y.oi.id

RECURSIVE orderBy(_)
orderBy(rows) ==
  IF rows = {} THEN <<>>
  ELSE LET first == CHOOSE x \in rows : \A y \in rows : ~rowBefore(y, x)
       IN <<first>> \o orderBy(rows \ {first})

\* The keys of orderMap, in insertion order.
RECURSIVE mapKeys(_)
mapKeys(rows) ==
  IF rows = <<>> THEN <<>>
  ELSE LET rest == mapKeys(SubSeq(rows, 1, Len(rows) - 1))
           id == rows[Len(rows)].o.id
       IN IF \E k \in 1..Len(rest) : rest[k] = id THEN rest ELSE Append(rest, id)

\* The loop of GET /orders/me over the rows: one object per order id, an
\* item pushed for each row whose product_id is truthy.
orderMapValues(rows) ==
  LET keys == mapKeys(rows) IN
  [n \in 1..Len(keys) |->
     LET of(row) == row.o.id = keys[n]
         pushed(row) == row.o.id = keys[n] /\ row.oi.id # 0 /\ row.oi.product_id # <<>>
         o == SelectSeq(rows, of)[1].o
         its == SelectSeq(rows, pushed)
     IN [id |-> o.id, createdAt |-> o.created_at,
         customer |-> [name |-> o.customer_name, phone |-> o.customer_phone,
                       email |-> o.customer_email, address |-> o.customer_address,
                       city |-> o.customer_city, state |-> o.customer_state,
                       pinCode |-> o.customer_pin_code, note |-> o.customer_note],
         items |-> [k \in 1..Len(its) |->
                      [id |-> its[k].oi.product_id, title |-> its[k].oi.title,
                       category |-> its[k].oi.category, qty |-> its[k].oi.qty]]]]

\* GET /orders/me up to `await allAsync`.
SOrdersMe(cookie) ==
  LET r == NextSlot
      q == Arrived("list", cookie, EmptyBody)
      user == selectSessionUser(cookie)
  IN
  /\ variant = "sqlite"
  /\ Free # {}
  /\ req' = [req EXCEPT ![r] =
       IF user = NoUser
       THEN answer(q, 401, error("not authenticated"), 0)
       ELSE [q EXCEPT !.pc = "rows", !.user = user]]
  /\ UNCHANGED <<variant, dbFile, writeQueue, db, txn, jar, now>>

\* GET /orders/me: the SELECT runs, then the rows are put together.
SOrdersMeRows(r) ==
  LET q == req[r] IN
  /\ variant = "sqlite"
  /\ q.op = "list" /\ q.pc = "rows"
  /\ req' = [req EXCEPT ![r] =
       answer(q, 200,
              [NoRes EXCEPT !.orders = orderMapValues(orderBy(joinRows(q.user.id)))], 0)]
  /\ UNCHANGED <<variant, dbFile, writeQueue, db, txn, jar, now>>

\* ------------------------------------------------------------- inputs
S(c) == Str(<<c>>)

\* Request bodies of the interleaved runs.
RegisterBodies ==
  {[EmptyBody EXCEPT !.name = S("n"), !.email = e, !.password = S("p")] :
     e \in {S("b"), Str(<<" ", "B">>)}}
  \cup {[EmptyBody EXCEPT !.email = S("a"), !.password = S("p")]}

LoginBodies ==
  {[EmptyBody EXCEPT !.email = S("a"), !.password = S("p")],
   [EmptyBody EXCEPT !.email = Str(<<"A", " ">>), !.password = S("x")],
   [EmptyBody EXCEPT !.email = S("b"), !.password = S("p")]}

Customer(name, phone, address) ==
  Obj([name |-> name, phone |-> phone, address |-> address, city |-> Str(<<" ", "c">>)])

Item(id, qty) == Obj([id |-> id, title |-> S("t"), category |-> undefined, qty |-> qty])

GoodCustomer == Customer(Str(<<"n", " ">>), S("1"), S("x"))

OrderBodies ==
  {[EmptyBody EXCEPT !.customer = GoodCustomer, !.items = Arr(items)] :
     items \in {<<Item(S("i"), Num(2)), Item(S("j"), S("3"))>>,
                <<Item(S("i"), Num(1)), Item(S("j"), Str(<<"a", "b">>))>>,
                <<Item(S("i"), Num(1)), null>>}}

\* ---------------------------------------------------------- the system
\* The store at start-up: as ensureDb / initDb create it, or as an earlier
\* run left it after one registration (user 1 with session 2).
seedUser ==
  [id |-> 1, name |-> <<"n">>, email |-> <<"a">>,
   passwordHash |-> bcryptHash(<<"p">>), createdAt |-> 0]

seedFile ==
  [users |-> <<seedUser>>, sessions |-> (2 :> [userId |-> 1, createdAt |-> 0]),
   orders |-> <<>>]

seedTables ==
  [emptyTables EXCEPT
     !.users = {[id |-> 1, name |-> <<"n">>, email |-> <<"a">>,
                 password_hash |-> bcryptHash(<<"p">>), created_at |-> 0]},
     !.sessions = {[id |-> 2, user_id |-> 1, created_at |-> 0]}]

Init ==
  /\ variant \in {"json", "sqlite"}
  /\ \E seeded \in BOOLEAN :
       /\ dbFile = IF seeded THEN seedFile ELSE initial
       /\ db = IF seeded THEN seedTables ELSE emptyTables
       /\ jar = IF seeded THEN {2} ELSE {}
  /\ writeQueue = <<>>
  /\ txn = NoTxn
  /\ req = [r \in Reqs |-> NoReq]
  /\ now = 1

\* The server takes another request: the run serves `slots` requests, at
\* most `inFlight` of them at a time.
Accepts(slots, inFlight) ==
  /\ Free # {}
  /\ NextSlot <= slots
  /\ InFlight < inFlight

\* A request arrives and its handler runs to its first await: the requests
\* of the interleaved runs, sent with a cookie some client holds.
Arrive ==
  \/ Accepts(MaxReq, MaxInFlight) /\ \E body \in RegisterBodies : JRegister(body)
  \/ Accepts(MaxReq, MaxInFlight) /\ \E body \in RegisterBodies : SRegister(body)
  \/ Accepts(MaxReq, MaxInFlight) /\ \E body \in LoginBodies : JLogin(body)
  \/ Accepts(MaxReq, MaxInFlight) /\ \E body \in LoginBodies : SLogin(body)
  \/ Accepts(MaxReq, MaxInFlight) /\ \E cookie \in jar : JLogout(cookie)
  \/ Accepts(MaxReq, MaxInFlight) /\ \E cookie \in jar : SLogout(cookie)
  \/ Accepts(MaxReq, MaxInFlight) /\ \E cookie \in jar : JMe(cookie)
  \/ Accepts(MaxReq, MaxInFlight) /\ \E cookie \in jar : SMe(cookie)
  \/ Accepts(MaxReq, MaxInFlight) /\ \E cookie \in jar, body \in OrderBodies, t \in Times :
       JOrder(cookie, body, t)
  \/ Accepts(MaxReq, MaxInFlight) /\ \E cookie \in jar, body \in OrderBodies, t \in Times :
       SOrder(cookie, body, t)
  \/ Accepts(MaxReq, MaxInFlight) /\ \E cookie \in jar : JOrdersMe(cookie)
  \/ Accepts(MaxReq, MaxInFlight) /\ \E cookie \in jar : SOrdersMe(cookie)

\* A handler resumes after an await.
Resume ==
  \E r \in Reqs :
    \/ JRegisterHashed(r, now)
    \/ JRegisterWritten(r)
    \/ JLoginCompared(r, now)
    \/ JLoginWritten(r)
    \/ JLogoutWritten(r)
    \/ JOrderWritten(r)
    \/ SRegisterInsertUser(r, now)
    \/ SRegisterInsertSession(r, now)
    \/ SLoginInsertSession(r, now)
    \/ SOrderBegin(r)
    \/ SOrderInsertHeader(r)
    \/ SOrderInsertItem(r)
    \/ SOrderCommit(r)
    \/ SOrderRollback(r)
    \/ SOrdersMeRows(r)

Next ==
  \/ Arrive
  \/ Resume

Spec == Init /\ [][Next]_vars

\* Request bodies of the runs that serve one request at a time.
SeqRegisterBodies ==
  {[EmptyBody EXCEPT !.name = n, !.email = e, !.password = pw] :
     n \in {S("n"), S(" "), undefined},
     e \in {S("a"), Str(<<" ", "B">>), undefined},
     pw \in {S("p"), S(" "), undefined}}

SeqLoginBodies ==
  {[EmptyBody EXCEPT !.email = e, !.password = pw] :
     e \in {S("a"), Str(<<"A", " ">>), S("b"), undefined},
     pw \in {S("p"), S("x"), undefined}}

SeqOrderBodies ==
  {[EmptyBody EXCEPT !.customer = Customer(n, ph, a),
                     !.items = Arr(<<Item(S("i"), Num(2))>>)] :
     n \in {S("n"), S(" "), undefined},
     ph \in {S("1"), Str(<<>>), S(" ")},
     a \in {S("x"), undefined}}
  \cup
  {[EmptyBody EXCEPT !.customer = GoodCustomer, !.items = items] :
     items \in {undefined, S("i"), Arr(<<>>),
                Arr(<<Item(S("i"), Num(2)), Item(undefined, Num(1))>>),
                Arr(<<Item(Str(<<>>), undefined)>>),
                Arr(<<Item(S("i"), Str(<<"a", "b">>))>>),
                Arr(<<Item(S("i"), Num(-1))>>),
                Arr(<<null>>)}}
  \cup
  {[EmptyBody EXCEPT !.items = Arr(<<Item(S("i"), Num(2))>>)]}

\* The cookie of such a request: none, one a client holds, or one that was
\* never issued.
SeqCookies == jar \cup {0, 99}

\* A request arrives when no other is in flight.
ArriveSeq ==
  \/ Accepts(SeqReq, 1) /\ \E body \in SeqRegisterBodies : JRegister(body)
  \/ Accepts(SeqReq, 1) /\ \E body \in SeqRegisterBodies : SRegister(body)
  \/ Accepts(SeqReq, 1) /\ \E body \in SeqLoginBodies : JLogin(body)
  \/ Accepts(SeqReq, 1) /\ \E body \in SeqLoginBodies : SLogin(body)
  \/ Accepts(SeqReq, 1) /\ \E cookie \in SeqCookies : JLogout(cookie)
  \/ Accepts(SeqReq, 1) /\ \E cookie \in SeqCookies : SLogout(cookie)
  \/ Accepts(SeqReq, 1) /\ \E cookie \in SeqCookies : JMe(cookie)
  \/ Accepts(SeqReq, 1) /\ \E cookie \in SeqCookies : SMe(cookie)
  \/ Accepts(SeqReq, 1) /\ \E cookie \in SeqCookies, body \in SeqOrderBodies, t \in Times :
       JOrder(cookie, body, t)
  \/ Accepts(SeqReq, 1) /\ \E cookie \in SeqCookies, body \in SeqOrderBodies, t \in Times :
       SOrder(cookie, body, t)
  \/ Accepts(SeqReq, 1) /\ \E cookie \in SeqCookies : JOrdersMe(cookie)
  \/ Accepts(SeqReq, 1) /\ \E cookie \in SeqCookies : SOrdersMe(cookie)

NextSeq ==
  \/ ArriveSeq
  \/ Resume

SpecSeq == Init /\ [][NextSeq]_vars

\* ------------------------------------------- removal of a user row
\* A user entry is taken out of auth-db.json: the file keeps users, sessions
\* and orders as three separate collections and nothing links them.
JDeleteUser(id) ==
  LET keep(user) == user.id # id IN
  /\ variant = "json"
  /\ \E k \in 1..Len(dbFile.users) : dbFile.users[k].id = id
  /\ dbFile' = [dbFile EXCEPT !.users = SelectSeq(@, keep)]
  /\ UNCHANGED <<variant, writeQueue, db, txn, req, jar, now>>

\* DELETE FROM users WHERE id = ? under the schema of initDb: foreign_keys
\* is ON and sessions, orders and order_items are ON DELETE CASCADE.
SDeleteUser(id) ==
  LET keptOrder(o) == o.user_id # id
      gone == {db.orders[k].id : k \in {j \in 1..Len(db.orders) : db.orders[j].user_id = id}}
      keptItem(oi) == oi.order_id \notin gone
  IN
  /\ variant = "sqlite"
  /\ \E u \in db.users : u.id = id
  /\ db' = [db EXCEPT !.users = {u \in @ : u.id # id},
                      !.sessions = {x \in @ : x.user_id # id},
                      !.orders = SelectSeq(@, keptOrder),
                      !.order_items = SelectSeq(@, keptItem)]
  /\ UNCHANGED <<variant, dbFile, writeQueue, txn, req, jar, now>>

\* The user ids there are: the seeded user's and those register draws.
UserIds == {seedUser.id} \cup {randomUUID(r, 1) : r \in Reqs}

\* A user row is removed while no request is in flight.
DeleteUser ==
  \/ InFlight = 0 /\ \E id \in UserIds : JDeleteUser(id)
  \/ InFlight = 0 /\ \E id \in UserIds : SDeleteUser(id)

\* The cookie of a request: one a client holds, or none.
AdminCookies == jar \cup {0}

\* Order bodies: those of the interleaved runs and one with nothing in it.
AdminOrderBodies == OrderBodies \cup {EmptyBody}

\* A request arrives when no other is in flight.
ArriveAdmin ==
  \/ Accepts(MaxReq, 1) /\ \E body \in RegisterBodies : JRegister(body)
  \/ Accepts(MaxReq, 1) /\ \E body \in RegisterBodies : SRegister(body)
  \/ Accepts(MaxReq, 1) /\ \E body \in LoginBodies : JLogin(body)
  \/ Accepts(MaxReq, 1) /\ \E body \in LoginBodies : SLogin(body)
  \/ Accepts(MaxReq, 1) /\ \E cookie \in AdminCookies : JLogout(cookie)
  \/ Accepts(MaxReq, 1) /\ \E cookie \in AdminCookies : SLogout(cookie)
  \/ Accepts(MaxReq, 1) /\ \E cookie \in AdminCookies : JMe(cookie)
  \/ Accepts(MaxReq, 1) /\ \E cookie \in AdminCookies : SMe(cookie)
  \/ Accepts(MaxReq, 1) /\ \E cookie \in AdminCookies, body \in AdminOrderBodies, t \in Times :
       JOrder(cookie, body, t)
  \/ Accepts(MaxReq, 1) /\ \E cookie \in AdminCookies, body \in AdminOrderBodies, t \in Times :
       SOrder(cookie, body, t)
  \/ Accepts(MaxReq, 1) /\ \E cookie \in AdminCookies : JOrdersMe(cookie)
  \/ Accepts(MaxReq, 1) /\ \E cookie \in AdminCookies : SOrdersMe(cookie)

NextAdmin ==
  \/ ArriveAdmin
  \/ Resume
  \/ DeleteUser

\* The server serving one request at a time, with user rows removed between
\* requests.
SpecAdmin == Init /\ [][NextAdmin]_vars

\* --------------------------------------------------- failing writes
\* The promise writeQueue is rejected: 0 stands at the head of the chain.
Rejected == 0

\* The chained fs.writeFile of request r runs and fails: the file is left as
\* it was, writeQueue is now a rejected promise, and the handler's catch
\* answers 500.
JWriteFailed(r) ==
  /\ variant = "json"
  /\ req[r].pc = "write"
  /\ writeQueue # <<>> /\ Head(writeQueue) = r
  /\ writeQueue' = <<Rejected>> \o Tail(writeQueue)
  /\ req' = [req EXCEPT ![r] = internalError(req[r])]
  /\ UNCHANGED <<variant, dbFile, db, txn, jar, now>>

\* writeQueue.then(...) of a rejected promise: the callback with
\* fs.writeFile of request r is never called, the promise writeDb returned
\* is rejected as well, and the handler's catch answers 500.
JWriteSkipped(r) ==
  /\ variant = "json"
  /\ req[r].pc = "write"
  /\ Len(writeQueue) >= 2 /\ Head(writeQueue) = Rejected /\ writeQueue[2] = r
  /\ writeQueue' = <<Rejected>> \o Tail(Tail(writeQueue))
  /\ req' = [req EXCEPT ![r] = internalError(req[r])]
  /\ UNCHANGED <<variant, dbFile, db, txn, jar, now>>

\* A write of the chain fails, or is passed over after a failure.
WriteFault ==
  \E r \in Reqs :
    \/ JWriteFailed(r)
    \/ JWriteSkipped(r)

NextFault ==
  \/ ArriveAdmin
  \/ Resume
  \/ WriteFault

\* The server serving one request at a time over a file whose writes may
\* fail.
SpecFault == Init /\ [][NextFault]_vars

\* ============================================================== properties
\* The store of the running server.
storedSessions ==
  IF variant = "json" THEN DOMAIN dbFile.sessions ELSE {s.id : s \in db.sessions}
storedUsers ==
  IF variant = "json" THEN {dbFile.users[k].id : k \in 1..Len(dbFile.users)}
  ELSE {u.id : u \in db.users}

isDone(r, op) == req[r].op = op /\ req[r].pc = "done"

validRegister(r) ==
  /\ regName(req[r].body) # <<>>
  /\ regEmail(req[r].body) # <<>>
  /\ regPassword(req[r].body) # <<>>

\* C1: two registrations with the same normalised email, which no user held
\* at start-up and no third request registers: one answers 201, the other 409
\* 'email already registered', however their steps interleave.
C1_OneRegistrationWins ==
  \A r1, r2 \in Reqs :
    (/\ r1 # r2
     /\ isDone(r1, "register") /\ validRegister(r1)
     /\ isDone(r2, "register") /\ validRegister(r2)
     /\ regEmail(req[r1].body) = regEmail(req[r2].body)
     /\ regEmail(req[r1].body) # seedUser.email
     /\ \A r3 \in Reqs \ {r1, r2} : req[r3].op # "register")
    => /\ {req[r1].status, req[r2].status} = {201, 409}
       /\ \A r \in {r1, r2} :
            req[r].status = 409 => req[r].res = error("email already registered")

\* C2: once a logout carrying session id s has answered, every protected
\* request (GET /auth/me, POST /orders, GET /orders/me) that arrives later
\* with s answers 401 'not authenticated'.
C2_LoggedOutSessionRejected ==
  \A l, r \in Reqs :
    (/\ isDone(l, "logout") /\ req[l].cookie # 0
     /\ req[r].op \in {"me", "order", "list"} /\ req[r].pc = "done"
     /\ req[r].cookie = req[l].cookie
     /\ l \in req[r].after)
    => req[r].status = 401 /\ req[r].res = error("not authenticated")

hashOf(user) ==
  IF "passwordHash" \in DOMAIN user THEN user.passwordHash ELSE user.password_hash

answeredLogin(r) ==
  /\ isDone(r, "login")
  /\ regEmail(req[r].body) # <<>>
  /\ regPassword(req[r].body) # <<>>

\* The login found no user with the email.
unknownEmail(r) == answeredLogin(r) /\ req[r].user = NoUser

\* The login found the user and the password does not match its hash.
wrongPassword(r) ==
  /\ answeredLogin(r)
  /\ req[r].user # NoUser
  /\ ~bcryptCompare(regPassword(req[r].body), hashOf(req[r].user))

\* C3: a login naming an unknown email and a login with a wrong password get
\* the same response, 401 'invalid credentials'; neither is given a cookie
\* and neither leaves a session in the store.
C3_UniformLoginFailure ==
  \A r1, r2 \in Reqs :
    unknownEmail(r1) /\ wrongPassword(r2)
    => /\ req[r1].status = req[r2].status
       /\ req[r1].res = req[r2].res
       /\ req[r1].status = 401
       /\ req[r1].res = error("invalid credentials")
       /\ \A r \in {r1, r2} :
            /\ req[r].setCookie = 0
            /\ randomUUID(r, 2) \notin storedSessions \cup jar

C3_Witness == \E r1, r2 \in Reqs : unknownEmail(r1) /\ wrongPassword(r2)

\* Request r is a POST /orders that has written its order header.
wroteHeader(r) ==
  /\ req[r].op = "order"
  /\ IF variant = "json" THEN req[r].pc \in {"write", "done"} /\ req[r].order # NoOrder
     ELSE req[r].i >= 1

\* C4: a GET /orders/me answered while a POST /orders of the same user is
\* under way lists that order with every item submitted, or not at all.
C4_NoPartialOrderListed ==
  \A l \in Reqs :
    isDone(l, "list") /\ req[l].status = 200
    => \A k \in 1..Len(req[l].res.orders) :
         \E r \in Reqs :
           /\ wroteHeader(r)
           /\ req[r].order.id = req[l].res.orders[k].id
           /\ Len(req[l].res.orders[k].items) = Len(itemsOf(req[r].body))

\* The header and the items the store holds under an order id.
headerStored(id) ==
  IF variant = "json" THEN \E k \in 1..Len(dbFile.orders) : dbFile.orders[k].id = id
  ELSE \E k \in 1..Len(db.orders) : db.orders[k].id = id

itemStored(id) ==
  variant = "sqlite" /\ \E j \in 1..Len(db.order_items) : db.order_items[j].order_id = id

\* The store holds the order of request r: its header with the customer
\* snapshot and one stored item for each item submitted, in order.
orderStored(r) ==
  LET q == req[r]
      c == customerSnapshot(customerOf(q.body))
      items == jsonOrder([items |-> convertItems(itemsOf(q.body))]).items
      of(row) == row.order_id = q.order.id
      rows == SelectSeq(db.order_items, of)
  IN
  IF variant = "json"
  THEN \E k \in 1..Len(dbFile.orders) :
         /\ dbFile.orders[k].id = q.order.id
         /\ dbFile.orders[k].userId = q.user.id
         /\ dbFile.orders[k].customer = c
         /\ dbFile.orders[k].items = items
  ELSE /\ \E k \in 1..Len(db.orders) :
            /\ db.orders[k].id = q.order.id
            /\ db.orders[k].user_id = q.user.id
            /\ db.orders[k].customer_name = c.name
            /\ db.orders[k].customer_phone = c.phone
            /\ db.orders[k].customer_address = c.address
       /\ [j \in 1..Len(rows) |->
             [id |-> rows[j].product_id, title |-> rows[j].title,
              category |-> rows[j].category, qty |-> rows[j].qty]] = items

\* C5: when a POST /orders answers after a failure that followed the write
\* of its header, the answer is 500 and the store then holds neither the
\* header nor any item of that order; when it answers 201 the store then
\* holds the header and every submitted item.
C5_OrderAllOrNothing ==
  [][\A r \in Reqs :
       (req'[r].op = "order" /\ req[r].pc # "done" /\ req'[r].pc = "done")
       => /\ (req[r].pc = "rollback" /\ req[r].i >= 1)
             => /\ req'[r].status = 500
                /\ ~headerStored(req[r].order.id)'
                /\ ~itemStored(req[r].order.id)'
          /\ req'[r].status = 201 => orderStored(r)']_vars

\* An order failed at its second item, after its header and first item were
\* written, and has answered; another order has answered 201.
C5_Witness ==
  \E r, o \in Reqs :
    /\ isDone(r, "order") /\ req[r].status = 500 /\ req[r].i >= 2
    /\ isDone(o, "order") /\ req[o].status = 201

\* C6: while a register has not answered, and after it has answered 500, the
\* store never holds its new user without the session issued for it.
C6_UserNeverWithoutSession ==
  \A r \in Reqs :
    (req[r].op = "register" /\ (req[r].pc # "done" \/ req[r].status = 500))
    => (randomUUID(r, 1) \in storedUsers => randomUUID(r, 2) \in storedSessions)

\* C7: a session id set as the cookie by a 201 register or a 200 login
\* resolves to that user in every GET /auth/me that arrives after that
\* response, as long as no logout carries the id.
C7_IssuedSessionResolves ==
  \A i, m \in Reqs :
    (/\ req[i].op \in {"register", "login"} /\ req[i].pc = "done"
     /\ req[i].status \in {200, 201} /\ req[i].setCookie > 0
     /\ isDone(m, "me") /\ i \in req[m].after
     /\ req[m].cookie = req[i].setCookie
     /\ \A l \in Reqs : ~(req[l].op = "logout" /\ req[l].cookie = req[i].setCookie))
    => req[m].status = 200 /\ req[m].res.user.id = req[i].res.user.id

\* C8: two orders of one user placed one after the other at different times,
\* then GET /orders/me: the response is the later order, then the earlier
\* one, each as its 201 response gave it.
C8_NewestFirst ==
  \A o1, o2, l \in Reqs :
    (/\ isDone(o1, "order") /\ req[o1].status = 201
     /\ isDone(o2, "order") /\ req[o2].status = 201
     /\ o1 \in req[o2].after
     /\ req[o1].res.order.createdAt < req[o2].res.order.createdAt
     /\ isDone(l, "list") /\ req[l].status = 200
     /\ {o1, o2} \subseteq req[l].after
     /\ req[o1].cookie = req[l].cookie /\ req[o2].cookie = req[l].cookie)
    => req[l].res.orders = <<req[o2].res.order, req[o1].res.order>>

\* C9: the customer and the items of a 201 order response equal those that a
\* GET /orders/me arriving afterwards returns under the same order id.
C9_ResponseEqualsListing ==
  \A o, l \in Reqs :
    (/\ isDone(o, "order") /\ req[o].status = 201
     /\ isDone(l, "list") /\ req[l].status = 200
     /\ o \in req[l].after
     /\ req[o].cookie = req[l].cookie)
    => \E k \in 1..Len(req[l].res.orders) :
         /\ req[l].res.orders[k].id = req[o].res.order.id
         /\ req[l].res.orders[k].customer = req[o].res.order.customer
         /\ req[l].res.orders[k].items = req[o].res.order.items

\* The order input that must be refused: a required customer field empty
\* after trimming, or no items.
refusedOrder(body) ==
  \/ \E f \in {"name", "phone", "address"} : field(customerOf(body), f) = <<>>
  \/ Len(itemsOf(body)) = 0

\* C10: a POST /orders of an authenticated caller whose customer name, phone
\* or address is empty after trimming, or whose items are an empty list or
\* no list, answers 400 and changes nothing in the store.
C10_InvalidOrderRefused ==
  [][\A r \in Reqs :
       (/\ req[r].op = "none" /\ req'[r].op = "order"
        /\ ~(req'[r].pc = "done" /\ req'[r].status = 401)
        /\ refusedOrder(req'[r].body))
       => /\ req'[r].pc = "done" /\ req'[r].status = 400
          /\ UNCHANGED <<dbFile, db, writeQueue>>]_vars

\* A register body with a field that is empty once trimmed.
emptyRegisterField(body) ==
  \E v \in {body.name, body.email, body.password} : trim(String(Or(v, Str(<<>>)))) = <<>>

\* The emails of the stored users.
storedEmails ==
  IF variant = "json" THEN {dbFile.users[k].email : k \in 1..Len(dbFile.users)}
  ELSE {u.email : u \in db.users}

\* C11: a register whose name, email or password is empty after trimming
\* answers 400, whether or not the email is stored; a register answers 409
\* exactly when no field is empty and its normalised email is stored; either
\* way nothing is written and no cookie is set.
C11_RegisterChecksInOrder ==
  [][\A r \in Reqs :
       (req[r].op = "none" /\ req'[r].op = "register")
       => LET body == req'[r].body
              taken == regEmail(body) \in storedEmails
              refused(status) ==
                /\ req'[r].pc = "done" /\ req'[r].status = status
                /\ req'[r].setCookie = 0
                /\ UNCHANGED <<dbFile, db, writeQueue>>
          IN /\ emptyRegisterField(body) => refused(400)
             /\ (~emptyRegisterField(body) /\ taken) => refused(409)
             /\ (req'[r].pc = "done" /\ req'[r].status = 409)
                => ~emptyRegisterField(body) /\ taken]_vars

\* The stored session that a cookie names, with a stored user behind it.
resolves(cookie) ==
  IF variant = "json"
  THEN /\ cookie \in DOMAIN dbFile.sessions
       /\ \E k \in 1..Len(dbFile.users) :
            dbFile.users[k].id = dbFile.sessions[cookie].userId
  ELSE \E x \in db.sessions : x.id = cookie /\ \E u \in db.users : u.id = x.user_id

\* C12: a GET /auth/me, POST /orders or GET /orders/me whose cookie is absent
\* or names no stored session with an existing user answers 401, whatever
\* its body, and leaves the store as it was.
C12_ProtectedNeedsSession ==
  [][\A r \in Reqs :
       (/\ req[r].op = "none" /\ req'[r].op \in {"me", "order", "list"}
        /\ ~resolves(req'[r].cookie))
       => /\ req'[r].pc = "done" /\ req'[r].status = 401
          /\ req'[r].res = error("not authenticated")
          /\ UNCHANGED <<dbFile, db, writeQueue, txn>>]_vars

\* The stored sessions, each with its user and creation time.
storedSessionRows ==
  IF variant = "json"
  THEN {[id |-> x, user_id |-> dbFile.sessions[x].userId,
         created_at |-> dbFile.sessions[x].createdAt] : x \in DOMAIN dbFile.sessions}
  ELSE db.sessions

\* C13: every POST /auth/logout answers 200 {ok: true} and clears the
\* cookie, whether the cookie is absent, names no stored session or names a
\* stored one; when it answers, the stored sessions are those stored before
\* without the named one (so a second logout with the same id removes
\* nothing).
C13_LogoutRemovesOnlyItsSession ==
  [][\A r \in Reqs :
       (req'[r].op = "logout" /\ req[r].pc # "done" /\ req'[r].pc = "done")
       => /\ req'[r].status = 200 /\ req'[r].res = [NoRes EXCEPT !.ok = TRUE]
          /\ req'[r].setCookie = -1
          /\ storedSessionRows' = {x \in storedSessionRows : x.id # req'[r].cookie}]_vars

\* C14: once a register has answered 201, a login that arrives afterwards
\* with that password and an email that trims and lower-cases to the
\* registered one answers 200 with the registered user's id and sets a
\* session cookie other than the register's.
C14_LoginAfterRegister ==
  \A g, l \in Reqs :
    (/\ isDone(g, "register") /\ req[g].status = 201
     /\ isDone(l, "login") /\ g \in req[l].after
     /\ regEmail(req[l].body) = regEmail(req[g].body)
     /\ regPassword(req[l].body) = regPassword(req[g].body))
    => /\ req[l].status = 200
       /\ req[l].res.user.id = req[g].res.user.id
       /\ req[l].setCookie > 0
       /\ req[l].setCookie # req[g].setCookie

\* C15: no two stored users have the same email, and every stored email is
\* its own trimmed, lower-cased form.
C15_StoredEmailsUnique ==
  /\ \A e \in storedEmails : e = toLowerCase(trim(e))
  /\ IF variant = "json"
     THEN \A j, k \in 1..Len(dbFile.users) :
            j # k => dbFile.users[j].email # dbFile.users[k].email
     ELSE \A u, v \in db.users : u # v => u.email # v.email

\* Two registers of one email both passed the existence check and have
\* answered, and a user with that email is stored.
C15_Witness ==
  \E r1, r2 \in Reqs :
    /\ r1 # r2
    /\ isDone(r1, "register") /\ req[r1].status \in {201, 500}
    /\ isDone(r2, "register") /\ req[r2].status \in {201, 500}
    /\ regEmail(req[r1].body) = regEmail(req[r2].body)
    /\ req[r1].body # req[r2].body
    /\ regEmail(req[r1].body) \in storedEmails

\* The ids of the stored orders, one per stored order.
storedOrderIds ==
  IF variant = "json" THEN [k \in 1..Len(dbFile.orders) |-> dbFile.orders[k].id]
  ELSE [k \in 1..Len(db.orders) |-> db.orders[k].id]

\* Request r is a POST /orders of an authenticated caller with the required
\* customer fields and at least one item, every item an object.
validOrder(r) ==
  /\ req[r].op = "order"
  /\ ~(req[r].pc = "done" /\ req[r].status = 401)
  /\ customerRequired(customerOf(req[r].body))
  /\ Len(itemsOf(req[r].body)) > 0
  /\ \A k \in 1..Len(itemsOf(req[r].body)) : canConvert(itemsOf(req[r].body)[k])

\* C16: no two stored orders share an id, and every valid order with numeric
\* quantities is answered 201 under an id of its own; this also when the
\* clock has not moved since the order before it.
C16_OrderIdsUnique ==
  /\ \A j, k \in 1..Len(storedOrderIds) : j # k => storedOrderIds[j] # storedOrderIds[k]
  /\ \A r \in Reqs :
       (validOrder(r) /\ req[r].pc = "done"
        /\ \A k \in 1..Len(itemsOf(req[r].body)) :
             convertItem(itemsOf(req[r].body)[k]).qty.t = "number")
       => req[r].status = 201

\* The quantities in the store.
storedQuantities ==
  IF variant = "json"
  THEN UNION {{dbFile.orders[k].items[j].qty : j \in 1..Len(dbFile.orders[k].items)} :
                k \in 1..Len(dbFile.orders)}
  ELSE {db.order_items[j].qty : j \in 1..Len(db.order_items)}

nonNegative(qty) == qty.t = "number" /\ qty.n >= 0

\* The quantity of the item is missing or not numeric.
noQuantity(item) ==
  \/ prop(item, "qty") = undefined
  \/ Number(Or(prop(item, "qty"), Num(0))) = NaN

\* C17: every quantity stored and every quantity returned by a 201 order
\* response is a non-negative number; a valid order with an id of its own
\* is answered 201, an item with a missing or non-numeric quantity coming
\* back with quantity 0.
C17_QuantityNonNegative ==
  /\ \A qty \in storedQuantities : nonNegative(qty)
  /\ \A r \in Reqs :
       (/\ validOrder(r) /\ req[r].pc = "done"
        /\ \A o \in Reqs \ {r} : req[o].order.id # req[r].order.id)
       => /\ req[r].status = 201
          /\ \A k \in 1..Len(req[r].res.order.items) :
               /\ nonNegative(req[r].res.order.items[k].qty)
               /\ noQuantity(itemsOf(req[r].body)[k])
                  => req[r].res.order.items[k].qty = Num(0)

\* The user a session cookie was issued to: the seeded session's user, or
\* the user in the response that set the cookie.
ownerOf(cookie) ==
  IF \E r \in Reqs : req[r].setCookie = cookie
  THEN req[CHOOSE r \in Reqs : req[r].setCookie = cookie].res.user.id
  ELSE seedUser.id

\* C18: a GET /orders/me answered 200 lists only orders that the caller's
\* user placed, and lists every order that this user had been answered 201
\* for when the request arrived.
C18_ListsOwnOrders ==
  \A l \in Reqs :
    (isDone(l, "list") /\ req[l].status = 200)
    => LET listed == {req[l].res.orders[k].id : k \in 1..Len(req[l].res.orders)} IN
       /\ \A id \in listed :
            \E o \in Reqs :
              /\ wroteHeader(o)
              /\ req[o].order.id = id
              /\ req[o].user.id = ownerOf(req[l].cookie)
       /\ \A o \in req[l].after :
            (/\ req[o].op = "order" /\ req[o].status = 201
             /\ req[o].user.id = ownerOf(req[l].cookie))
            => req[o].order.id \in listed

\* C19: once a user row has been removed, the user's sessions are gone with
\* it: a protected request that arrives with a session id issued to a user
\* whose row is not stored answers 401.
C19_UserRemovalCascades ==
  [][\A r \in Reqs :
       (/\ req[r].op = "none" /\ req'[r].op \in {"me", "order", "list"}
        /\ req'[r].cookie # 0
        /\ ownerOf(req'[r].cookie) \notin storedUsers)
       => req'[r].pc = "done" /\ req'[r].status = 401]_vars

\* The stored users, orders and order items.
storedUsersAndOrders ==
  IF variant = "json" THEN <<dbFile.users, dbFile.orders>>
  ELSE <<db.users, db.orders, db.order_items>>

\* C20: when a login answers 200, the stored sessions are those stored
\* before and one new session of the logged-in user, the one set as the
\* cookie; the stored users, orders and order items are as before.
C20_LoginOnlyAddsSession ==
  [][\A r \in Reqs :
       (/\ req'[r].op = "login" /\ req[r].pc # "done"
        /\ req'[r].pc = "done" /\ req'[r].status = 200)
       => /\ req'[r].setCookie \notin storedSessions
          /\ \E x \in storedSessionRows' :
               /\ x.id = req'[r].setCookie
               /\ x.user_id = req'[r].res.user.id
               /\ storedSessionRows' = storedSessionRows \cup {x}
          /\ storedUsersAndOrders' = storedUsersAndOrders]_vars

\* C21: what a 201 response acknowledged stays stored: a login that arrives
\* after a register was answered 201, with the registered email and
\* password, is not refused, and a GET /orders/me of a user, answered 200,
\* lists each order that this user had been answered 201 for when it arrived.
C21_NoAcknowledgedWriteLost ==
  /\ \A g, l \in Reqs :
       (/\ isDone(g, "register") /\ req[g].status = 201
        /\ isDone(l, "login") /\ g \in req[l].after
        /\ regEmail(req[l].body) = regEmail(req[g].body)
        /\ regPassword(req[l].body) = regPassword(req[g].body))
       => req[l].status = 200
  /\ \A o, l \in Reqs :
       (/\ isDone(o, "order") /\ req[o].status = 201
        /\ isDone(l, "list") /\ req[l].status = 200 /\ o \in req[l].after
        /\ req[o].user.id = ownerOf(req[l].cookie))
       => \E k \in 1..Len(req[l].res.orders) :
            req[l].res.orders[k].id = req[o].res.order.id

\* C22: after a file write has failed, a register, login, logout or order
\* that arrived after the failed request was answered, and whose own
\* fs.writeFile does not fail, answers with its success status.
C22_WriteFailureStaysLocal ==
  [][\A r \in Reqs :
       (/\ variant = "json"
        /\ req[r].op \in {"register", "login", "logout", "order"}
        /\ req[r].pc = "write" /\ req'[r].pc = "done"
        /\ \E f \in req[r].after : req[f].status = 500
        /\ writeQueue # <<>>
        /\ ~(Head(writeQueue) = r /\ writeQueue' # <<>> /\ Head(writeQueue') = Rejected))
       => req'[r].status \in {200, 201}]_vars

====
